---- MODULE Spec2Model ----
(***************************************************************************)
(* Model of the reddit-agent analysis pipeline                             *)
(* (src/Updated_azure_pipeline_nov_11.py).                                 *)
(*                                                                         *)
(* The text-completion oracle is the only source of nondeterminism: every  *)
(* oracle call either raises after safe_llm_call has used up its retries,  *)
(* or returns some text.  The text is modelled by what the parsing code    *)
(* reads from it (JSON arrays of integers, "POST_i: ..." lines).           *)
(*                                                                         *)
(* Part I   : the Clustering Engine (llm_cluster_posts), SpecCluster       *)
(* Part II  : Summarization / Categorization stages, SpecStages            *)
(* Part III : generate_insights_llm_clustering, SpecInsights               *)
(* Part IV  : the oracle gateway safe_llm_call, SpecGateway                *)
(* Part V   : the job runner of the dashboard API (src/backend/app.py),    *)
(*            SpecBackend                                                  *)
(***************************************************************************)
EXTENDS Integers, Sequences, FiniteSets, TLC

(***************************************************************************)
(* Bounds of the model.                                                    *)
(***************************************************************************)
\* largest number of records beyond INITIAL_SAMPLE_SIZE in one category
MaxExtra == 3
\* largest total number of indices in one direct-clustering response
MaxElems == 3
\* largest number of response lines naming the same record
MaxLines == 1
\* largest number of records given to a batched stage
MaxStagePosts == 3
\* largest value of the parameter retries of safe_llm_call
MaxRetries == 4
\* largest value of the parameter delay of safe_llm_call
MaxDelay == 3
\* largest number of jobs submitted to the dashboard API
MaxJobs == 2

(***************************************************************************)
(* Program constants.  The sizes are scaled down so that the state space   *)
(* is finite and small: the code compares and slices with them, it never   *)
(* depends on their absolute value.                                        *)
(***************************************************************************)
\* INITIAL_SAMPLE_SIZE = 100 in the source
INITIAL_SAMPLE_SIZE == 3
\* batch_size = 30 (default of _assign_posts_to_clusters) in the source
AssignBatchSize == 2

\* BATCH_SIZE = 10 in the source
BATCH_SIZE == 2
\* FIXED_CATEGORIES has 4 entries in the source
Categories == <<"catA", "catB">>

\* the values min_cluster_size takes (function default 2; the CLI passes 3)
MinClusterSizes == {1, 2, 3}

VARIABLES
    \* ---- Part I : llm_cluster_posts(posts, category, min_cluster_size)
    numPosts,       \* len(posts): the category's records are 0..numPosts-1
    mcs,            \* min_cluster_size
    pc,             \* position in llm_cluster_posts
    clusters,       \* the dict cluster_id -> list of post indices
    response,       \* clusters_array of the latest direct-clustering call
    sampleClusters, \* history: clusters as phase 1 left them
    themes,         \* keys of cluster_themes
    pos,            \* loop variable i of _assign_posts_to_clusters
    jdx,            \* loop variable j of the parse loop of one sub-batch
    scan,           \* history: what the lines naming the last record said
    calls           \* history: oracle requests made, by kind, and how many
                    \* of the theme and of the assignment requests raised

varsCluster == <<numPosts, mcs, pc, clusters, response, sampleClusters,
                 themes, pos, jdx, scan, calls>>

VARIABLES
    \* ---- Part II : summarize_posts(posts) / categorize_posts(posts, categories)
    stage,          \* which of the two functions runs
    stN,            \* len(posts): the records are 0..stN-1, in input order
    stPc,           \* "run" inside the batch loop, "done" once returned
    stPos,          \* loop variable i (start of the next batch)
    stOut,          \* the list summarized / categorized
    stResp,         \* history: outcome of the latest batch call
    stFailed,       \* history: starts of the batches whose call raised
    stCalls,        \* history: number of batch calls made
    stBatches       \* history: the batches formed, in order

varsStages == <<stage, stN, stPc, stPos, stOut, stResp, stFailed, stCalls,
                stBatches>>

VARIABLES
    \* ---- Part III : generate_insights_llm_clustering(posts, categories, mcs)
    insPosts,       \* posts: the category label of each record, in input order
    insMcs,         \* min_cluster_size
    insPc,          \* position in the function
    catIdx,         \* position of the loop "for cat in categories" (from 1)
    insDb,          \* insights_db
    curClusters,    \* clusters of the category being processed
    curDone,        \* cluster ids the loop of line 832 has passed
    catInsights,    \* cat_insights
    raisedCats,     \* history: categories whose clustering call raised
    failedCats,     \* history: categories with a failed synthesis call
    clusteredCats   \* history: categories llm_cluster_posts was called for

varsInsights == <<insPosts, insMcs, insPc, catIdx, insDb, curClusters, curDone,
                  catInsights, raisedCats, failedCats, clusteredCats>>

VARIABLES
    \* ---- Part IV : safe_llm_call(fn, retries, delay)
    gwRetries,      \* retries
    gwDelay,        \* delay
    gwPc,           \* "run" in the loop, "returned" or "raised" once left
    gwI,            \* loop variable i
    gwOutcomes,     \* history: what each call of fn did, in order
    gwWaits,        \* history: the arguments of time.sleep, in order
    gwResult        \* what safe_llm_call returned or raised

varsGateway == <<gwRetries, gwDelay, gwPc, gwI, gwOutcomes, gwWaits, gwResult>>

VARIABLES
    \* ---- Part V : the dashboard API and its job threads
    jobs,           \* the dict jobs: job id -> job, with the thread's position
    subredditData,  \* the dict subreddit_data
    outputDirs,     \* the directories of pipeline_output, oldest mtime first
    completedOrder  \* history: the jobs that became completed, in order

varsBackend == <<jobs, subredditData, outputDirs, completedOrder>>

vars == <<varsCluster, varsStages, varsInsights, varsGateway, varsBackend>>

\* what an action of one part leaves alone: the variables of the other parts
othersCluster == <<varsStages, varsInsights, varsGateway, varsBackend>>
othersStages == <<varsCluster, varsInsights, varsGateway, varsBackend>>
othersInsights == <<varsCluster, varsStages, varsGateway, varsBackend>>
othersGateway == <<varsCluster, varsStages, varsInsights, varsBackend>>
othersBackend == <<varsCluster, varsStages, varsInsights, varsGateway>>

(***************************************************************************)
(* Generic helpers.                                                        *)
(***************************************************************************)
Range(s) == {s[i] : i \in DOMAIN s}

\* list(range(n))
RangeList(n) == [i \in 1..n |-> i - 1]

\* how many times x occurs in the list s
Count(s, x) == Cardinality({i \in DOMAIN s : s[i] = x})

\* the empty dict
EmptyDict == <<>>

(***************************************************************************)
(* Part I.  Direct clustering: _cluster_initial_sample.                    *)
(***************************************************************************)

\* A parsed response (json.loads) is a list of lists of integers.  The
\* oracle may name any integer: in range, negative, or too large.
IndexValues(num_posts) == -1 .. num_posts

RECURSIVE SplitAt(_, _, _)
\* the first k elements of flat, cut into consecutive non-empty arrays; a
\* new array starts after every position in cuts
SplitAt(flat, cuts, k) ==
    IF k = 0 THEN <<>>
    ELSE LET prev == SplitAt(flat, cuts, k - 1) IN
         IF k = 1 \/ (k - 1) \in cuts
         THEN Append(prev, <<flat[k]>>)
         ELSE [prev EXCEPT ![Len(prev)] = Append(@, flat[k])]

\* every clusters_array with at most MaxElems indices in all
ClusterResponses(num_posts) ==
    UNION { { SplitAt(flat, cuts, Len(flat)) :
                cuts \in SUBSET (1 .. (Len(flat) - 1)) } :
            flat \in UNION { [1..k -> IndexValues(num_posts)] : k \in 0..MaxElems } }

\* a variant of the filter that does not look at seen_indices
ValidIndices_IgnoreSeen(indices, num_posts, seen) ==
    SelectSeq(indices, LAMBDA i : 0 <= i /\ i < num_posts)

\* line 541: [i for i in indices if 0 <= i < num_posts and i not in seen_indices]
ValidIndices(indices, num_posts, seen) ==
    SelectSeq(indices, LAMBDA i : 0 <= i /\ i < num_posts /\ i \notin seen)

\* the loop state of lines 536-538
InitAcc == [clusters |-> EmptyDict, seen |-> {}, next |-> 0]

\* mutant: a rejected cluster consumes an id
AcceptStep_BurnId(acc, indices, num_posts, min_cluster_size) ==
    LET valid == ValidIndices(indices, num_posts, acc.seen) IN
    IF Len(valid) >= min_cluster_size
    THEN [clusters |-> acc.clusters @@ (acc.next :> valid),
          seen     |-> acc.seen \cup Range(valid),
          next     |-> acc.next + 1]
    ELSE [acc EXCEPT !.next = acc.next + 1]

\* mutant: indices claimed by an earlier cluster are not filtered out
AcceptStep_NoSeen(acc, indices, num_posts, min_cluster_size) ==
    LET valid == ValidIndices(indices, num_posts, {}) IN
    IF Len(valid) >= min_cluster_size
    THEN [clusters |-> acc.clusters @@ (acc.next :> valid),
          seen     |-> acc.seen \cup Range(valid),
          next     |-> acc.next + 1]
    ELSE acc

\* one iteration of the loop of lines 540-545
AcceptStep(acc, indices, num_posts, min_cluster_size) ==
    LET valid == ValidIndices(indices, num_posts, acc.seen) IN
    IF Len(valid) >= min_cluster_size
    THEN [clusters |-> acc.clusters @@ (acc.next :> valid),
          seen     |-> acc.seen \cup Range(valid),
          next     |-> acc.next + 1]
    ELSE acc

RECURSIVE AcceptLoop(_, _, _, _)
\* lines 540-545 over the first k proposed clusters
AcceptLoop(clusters_array, k, num_posts, min_cluster_size) ==
    IF k = 0 THEN InitAcc
    ELSE AcceptStep(AcceptLoop(clusters_array, k - 1, num_posts, min_cluster_size),
                    clusters_array[k], num_posts, min_cluster_size)

\* mutant: on a tie the cluster accepted last wins
LargestCluster_LastOnTie(cl) ==
    CHOOSE k \in DOMAIN cl :
        \A o \in DOMAIN cl :
            \/ Len(cl[k]) > Len(cl[o])
            \/ Len(cl[k]) = Len(cl[o]) /\ k >= o

\* mutant: the largest cluster is taken from the snapshot phase 1 left
LargestCluster_Snapshot(cl) ==
    LET snap == IF DOMAIN sampleClusters = DOMAIN cl THEN sampleClusters ELSE cl IN
    CHOOSE k \in DOMAIN snap :
        \A o \in DOMAIN snap :
            \/ Len(snap[k]) > Len(snap[o])
            \/ Len(snap[k]) = Len(snap[o]) /\ k <= o

\* max(clusters.keys(), key=lambda k: len(clusters[k])): the first key, in
\* insertion order, of maximal length.  Keys are inserted in increasing
\* order (next_cluster_id), so insertion order is key order.
LargestCluster(cl) ==
    CHOOSE k \in DOMAIN cl :
        \A o \in DOMAIN cl :
            \/ Len(cl[k]) > Len(cl[o])
            \/ Len(cl[k]) = Len(cl[o]) /\ k <= o

\* range(num_posts) filtered by "not in seen_indices" (line 548)
RECURSIVE MissingIndices(_, _)
MissingIndices(num_posts, seen) ==
    IF num_posts = 0 THEN <<>>
    ELSE LET rest == MissingIndices(num_posts - 1, seen) IN
         IF (num_posts - 1) \in seen THEN rest ELSE Append(rest, num_posts - 1)

\* mutant: unclaimed indices are left out
HandleMissing_Drop(acc, num_posts) ==
    IF DOMAIN acc.clusters # {} THEN acc.clusters
    ELSE (0 :> RangeList(num_posts))

\* lines 547-556
HandleMissing(acc, num_posts) ==
    LET missing == MissingIndices(num_posts, acc.seen)
        cl == acc.clusters
        filled ==
            IF missing # <<>>
            THEN IF DOMAIN cl # {}
                 THEN [cl EXCEPT ![LargestCluster(cl)] = @ \o missing]
                 ELSE (0 :> RangeList(num_posts))
            ELSE cl
    IN IF DOMAIN filled # {} THEN filled ELSE (0 :> RangeList(num_posts))

\* what _cluster_initial_sample returns for a well-formed clusters_array
ClusterInitialSample(clusters_array, num_posts, min_cluster_size) ==
    HandleMissing(AcceptLoop(clusters_array, Len(clusters_array),
                             num_posts, min_cluster_size), num_posts)

\* a variant of the fallback that returns no cluster
SingleCluster_Empty(num_posts) == EmptyDict

\* a variant of the fallback that covers the sample only
SingleCluster_SampleOnly(num_posts) ==
    (0 :> RangeList(IF num_posts <= INITIAL_SAMPLE_SIZE
                    THEN num_posts ELSE INITIAL_SAMPLE_SIZE))

\* a variant of the fallback that puts every record in a cluster of its own
SingleCluster_PerPost(num_posts) == [k \in 0..(num_posts - 1) |-> <<k>>]

\* the except branches of llm_cluster_posts (lines 742, 779)
SingleCluster(num_posts) == (0 :> RangeList(num_posts))

(***************************************************************************)
(* llm_cluster_posts as a state machine.                                   *)
(***************************************************************************)
NoCalls == [cluster |-> 0, theme |-> 0, assign |-> 0, themeRaised |-> 0,
            assignRaised |-> 0]
NoResponse == [kind |-> "none", arr |-> <<>>]
Raised == [kind |-> "raised", arr |-> <<>>]
Array(r) == [kind |-> "array", arr |-> r]

\* the stages' variables while another part of the program is modelled
StagesIdle ==
    /\ stage = "none"
    /\ stN = 0
    /\ stPc = "done"
    /\ stPos = 0
    /\ stOut = <<>>
    /\ stResp = [kind |-> "none", lines |-> <<>>]
    /\ stFailed = {}
    /\ stCalls = 0
    /\ stBatches = <<>>

\* the insight generator's variables while another part is modelled
InsightsIdle ==
    /\ insPosts = <<>>
    /\ insMcs = 2
    /\ insPc = "done"
    /\ catIdx = 1
    /\ insDb = <<>>
    /\ curClusters = <<>>
    /\ curDone = {}
    /\ catInsights = <<>>
    /\ raisedCats = {}
    /\ failedCats = {}
    /\ clusteredCats = {}

\* the gateway's variables while another part is modelled
GatewayIdle ==
    /\ gwRetries = 3
    /\ gwDelay = 3
    /\ gwPc = "returned"
    /\ gwI = 0
    /\ gwOutcomes = <<>>
    /\ gwWaits = <<>>
    /\ gwResult = [kind |-> "none", attempt |-> 0]

\* the dashboard API's variables while another part is modelled
BackendIdle ==
    /\ jobs = <<>>
    /\ subredditData = <<>>
    /\ outputDirs = <<>>
    /\ completedOrder = <<>>

InitCluster ==
    /\ StagesIdle
    /\ InsightsIdle
    /\ GatewayIdle
    /\ BackendIdle
    /\ numPosts \in 0 .. (INITIAL_SAMPLE_SIZE + MaxExtra)
    /\ mcs \in MinClusterSizes
    /\ pc = "start"
    /\ clusters = EmptyDict
    /\ response = NoResponse
    /\ sampleClusters = EmptyDict
    /\ themes = {}
    /\ pos = 0
    /\ jdx = 0
    /\ scan = <<>>
    /\ calls = NoCalls

\* lines 736-742: small category, the clustering call returns
DirectOk ==
    /\ pc = "start"
    /\ numPosts <= INITIAL_SAMPLE_SIZE
    /\ \E r \in ClusterResponses(numPosts) :
        /\ response' = Array(r)
        /\ clusters' = ClusterInitialSample(r, numPosts, mcs)
    /\ pc' = "done"
    /\ calls' = [calls EXCEPT !.cluster = @ + 1]
    /\ UNCHANGED <<numPosts, mcs, sampleClusters, themes, pos, jdx, scan>>
    /\ UNCHANGED othersCluster

\* lines 740-742: the call raises (the oracle failed after the retries, the
\* text is not JSON, or the loop of lines 540-541 cannot iterate over the
\* parsed value or compare its elements with a number)
DirectRaise ==
    /\ pc = "start"
    /\ numPosts <= INITIAL_SAMPLE_SIZE
    /\ response' = Raised
    /\ clusters' = SingleCluster(numPosts)
    /\ pc' = "done"
    /\ calls' = [calls EXCEPT !.cluster = @ + 1]
    /\ UNCHANGED <<numPosts, mcs, sampleClusters, themes, pos, jdx, scan>>
    /\ UNCHANGED othersCluster

\* lines 747-757: large category, phase 1 on the first INITIAL_SAMPLE_SIZE
\* records returns.  (_cluster_initial_sample never returns an empty dict,
\* the test of line 753 is kept as the code has it.)
Phase1Ok ==
    /\ pc = "start"
    /\ numPosts > INITIAL_SAMPLE_SIZE
    /\ \E r \in ClusterResponses(INITIAL_SAMPLE_SIZE) :
        LET cl == ClusterInitialSample(r, INITIAL_SAMPLE_SIZE, mcs) IN
        /\ response' = Array(r)
        /\ IF DOMAIN cl = {}
           THEN /\ clusters' = SingleCluster(numPosts)
                /\ pc' = "done"
           ELSE /\ clusters' = cl
                /\ pc' = "phase2"
        /\ sampleClusters' = cl
    /\ calls' = [calls EXCEPT !.cluster = @ + 1]
    /\ UNCHANGED <<numPosts, mcs, themes, pos, jdx, scan>>
    /\ UNCHANGED othersCluster

\* lines 776-779: phase 1 raises
Phase1Raise ==
    /\ pc = "start"
    /\ numPosts > INITIAL_SAMPLE_SIZE
    /\ response' = Raised
    /\ clusters' = SingleCluster(numPosts)
    /\ pc' = "done"
    /\ calls' = [calls EXCEPT !.cluster = @ + 1]
    /\ UNCHANGED <<numPosts, mcs, sampleClusters, themes, pos, jdx, scan>>
    /\ UNCHANGED othersCluster

\* the cluster whose theme _extract_cluster_themes asks for next (line 573:
\* clusters.items() in insertion order)
NextThemeId == CHOOSE k \in DOMAIN clusters \ themes :
                   \A o \in DOMAIN clusters \ themes : k <= o

\* lines 573-604, one iteration: the theme call returns.  After the last one
\* llm_cluster_posts goes on to phase 3 (lines 764-768).
ThemeOk ==
    /\ pc = "phase2"
    /\ themes' = themes \cup {NextThemeId}
    /\ calls' = [calls EXCEPT !.theme = @ + 1]
    /\ pc' = IF themes' = DOMAIN clusters THEN "phase3" ELSE "phase2"
    /\ response' = NoResponse
    /\ UNCHANGED <<numPosts, mcs, clusters, sampleClusters, pos, jdx, scan>>
    /\ UNCHANGED othersCluster

\* line 601 raises; lines 776-779 catch it
ThemeRaise ==
    /\ pc = "phase2"
    /\ calls' = [calls EXCEPT !.theme = @ + 1, !.themeRaised = @ + 1]
    /\ clusters' = SingleCluster(numPosts)
    /\ pc' = "done"
    /\ response' = NoResponse
    /\ UNCHANGED <<numPosts, mcs, sampleClusters, themes, pos, jdx, scan>>
    /\ UNCHANGED othersCluster

\* a variant in which phase 3 is handed every record of the category
NumRemaining_All == numPosts

\* len(remaining_posts)
NumRemaining == numPosts - INITIAL_SAMPLE_SIZE

\* a variant that takes every sub-batch for a full one
BatchLen_Full(i) == AssignBatchSize

\* len(batch) for the sub-batch starting at i (line 633)
BatchLen(i) == IF NumRemaining - i < AssignBatchSize
               THEN NumRemaining - i ELSE AssignBatchSize

\* where the loop of line 632 goes after the sub-batch starting at i
AfterBatch(i) == IF i + AssignBatchSize < NumRemaining THEN "phase3" ELSE "done"

\* line 674: the assignment call of the sub-batch returns
AssignCallOk ==
    /\ pc = "phase3"
    /\ calls' = [calls EXCEPT !.assign = @ + 1]
    /\ pc' = "parse"
    /\ jdx' = 0
    /\ scan' = <<>>
    /\ UNCHANGED <<numPosts, mcs, clusters, response, sampleClusters, themes, pos>>
    /\ UNCHANGED othersCluster

\* a variant of the fallback loop that stops one record short
ExtendFrom_SkipLast(s, first, n) ==
    s \o [k \in 1..(n - 1) |-> first + k - 1]

RECURSIVE ExtendFrom(_, _, _)
\* lines 701-702: append first, first+1, ..., first+n-1 to list s
ExtendFrom(s, first, n) ==
    IF n = 0 THEN s ELSE Append(ExtendFrom(s, first, n - 1), first + n - 1)

\* lines 698-702: the assignment call raises, the whole sub-batch goes to
\* the cluster that is largest now
AssignCallRaise ==
    /\ pc = "phase3"
    /\ calls' = [calls EXCEPT !.assign = @ + 1, !.assignRaised = @ + 1]
    /\ clusters' = [clusters EXCEPT ![LargestCluster(clusters)] =
                        ExtendFrom(@, INITIAL_SAMPLE_SIZE + pos, BatchLen(pos))]
    /\ pc' = AfterBatch(pos)
    /\ pos' = pos + AssignBatchSize
    /\ scan' = <<>>
    /\ UNCHANGED <<numPosts, mcs, response, sampleClusters, themes, jdx>>
    /\ UNCHANGED othersCluster

\* What a response line naming a record says after its first colon: text
\* int() rejects, or an integer, which is the id of a cluster or is not
\* (the number of clusters stands for every integer that is no id).
Unparseable == [parses |-> FALSE, num |-> 0]
LineValues(cl) ==
    {Unparseable} \cup
    {[parses |-> TRUE, num |-> n] : n \in 0 .. Cardinality(DOMAIN cl)}

\* the lines naming one record, in response order
Scans(cl) == UNION { [1..k -> LineValues(cl)] : k \in 0..MaxLines }

RECURSIVE FirstKnown(_, _, _)
\* lines 682-691: the first line, from position k on, that parses to a key
\* of clusters; 0 if there is none
FirstKnown(lines, cl, k) ==
    IF k > Len(lines) THEN 0
    ELSE IF lines[k].parses /\ lines[k].num \in DOMAIN cl THEN k
    ELSE FirstKnown(lines, cl, k + 1)

\* lines 678-696 for one record: the cluster it is appended to
AssignTarget(lines, cl) ==
    LET k == FirstKnown(lines, cl, 1) IN
    IF k # 0 THEN lines[k].num ELSE LargestCluster(cl)

\* lines 678-696, one iteration of the parse loop
AssignRecord ==
    /\ pc = "parse"
    /\ \E lines \in Scans(clusters) :
        /\ scan' = lines
        /\ clusters' = [clusters EXCEPT ![AssignTarget(lines, clusters)] =
                            Append(@, INITIAL_SAMPLE_SIZE + pos + jdx)]
    /\ IF jdx + 1 < BatchLen(pos)
       THEN /\ jdx' = jdx + 1
            /\ UNCHANGED <<pc, pos>>
       ELSE /\ jdx' = 0
            /\ pc' = AfterBatch(pos)
            /\ pos' = pos + AssignBatchSize
    /\ UNCHANGED <<numPosts, mcs, response, sampleClusters, themes, calls>>
    /\ UNCHANGED othersCluster

NextCluster ==
    \/ DirectOk
    \/ DirectRaise
    \/ Phase1Ok
    \/ Phase1Raise
    \/ ThemeOk
    \/ ThemeRaise
    \/ AssignCallOk
    \/ AssignCallRaise
    \/ AssignRecord

SpecCluster == InitCluster /\ [][NextCluster]_vars

(***************************************************************************)
(* Part II.  The batched stages: summarize_posts and categorize_posts.     *)
(* A record is identified by its position in the input list; its title is  *)
(* an opaque text of its own.  A response is a list of lines; a line is     *)
(* modelled by what the parser reads from it.                              *)
(***************************************************************************)

\* seq[x] of a Python list, x counted from 0, a negative x from the end
At0(seq, x) == IF x < 0 THEN seq[Len(seq) + x + 1] ELSE seq[x + 1]

\* p["title"] of the record at input position i
TitleOf(i) == [src |-> "title", n |-> i]

\* the text a response line carries; no two lines carry the same text
LineText(p) == [src |-> "line", n |-> p]

\* a response has at most as many lines as a full batch has records
MaxRespLines == BATCH_SIZE

\* len(batch) of the batch starting at i (lines 344, 439)
StageBatchLen(i) == IF stN - i < BATCH_SIZE THEN stN - i ELSE BATCH_SIZE

\* a variant of the slice that leaves out the last record of a full batch
StageBatch_Short(i) ==
    [k \in 1..(IF stN - i < BATCH_SIZE THEN stN - i ELSE BATCH_SIZE - 1) |-> i + k - 1]

\* batch = posts[i:i+BATCH_SIZE] (lines 344, 439), as input positions
StageBatch(i) == [k \in 1..StageBatchLen(i) |-> i + k - 1]

\* The shapes of a summary line after its "POST_k:" prefix:
\*   plain  no "||"                       notag  "||" but no word SENTIMENT
\*   pos    "|| SENTIMENT: ...pos..."     neg    "|| SENTIMENT: ...neg..."
\*   other  "|| SENTIMENT:" and neither
SummaryForms == {"plain", "notag", "pos", "neg", "other"}

\* prefix k: the stripped line starts with "POST_k:"; 0: with none of them
SummaryLines ==
    [prefix : 0..BATCH_SIZE, form : SummaryForms]

SummaryResponses ==
    UNION { [1..k -> SummaryLines] : k \in 0..MaxRespLines }

RECURSIVE FirstLineFor(_, _, _)
\* lines 302-305 and 411-414: the first line, from position p on, naming
\* record number k of the batch; 0 if there is none
FirstLineFor(lines, k, p) ==
    IF p > Len(lines) THEN 0
    ELSE IF lines[p].prefix = k THEN p
    ELSE FirstLineFor(lines, k, p + 1)

\* mutant: the line is taken by its position in the response
FindLine_Positional(lines, k) == IF k <= Len(lines) THEN k ELSE 0

\* the line summarize_batch / categorize_batch uses for record number k
FindLine(lines, k) == FirstLineFor(lines, k, 1)

\* lines 315-324
SentimentOf(form) ==
    IF form = "pos" THEN "positive"
    ELSE IF form = "neg" THEN "negative"
    ELSE "neutral"

\* a variant that keeps the title when the line has no "||"
ParseSummary_TitleOnPlain(lines, k, i) ==
    LET p == FindLine(lines, k) IN
    IF p = 0 \/ lines[p].form = "plain"
    THEN [id |-> i, summary |-> TitleOf(i), sentiment |-> "neutral"]
    ELSE [id |-> i, summary |-> LineText(p),
          sentiment |-> SentimentOf(lines[p].form)]

\* lines 306-331 for the record at input position i, number k in its batch
ParseSummary(lines, k, i) ==
    LET p == FindLine(lines, k) IN
    IF p = 0
    THEN [id |-> i, summary |-> TitleOf(i), sentiment |-> "neutral"]
    ELSE [id |-> i, summary |-> LineText(p),
          sentiment |-> SentimentOf(lines[p].form)]

\* mutant: only the records whose line was found are handed back, so the
\* zip of lines 348-351 stops short
SummarizeBatch_OnlyFound(lines, i) ==
    SelectSeq([k \in 1..StageBatchLen(i) |-> ParseSummary(lines, k, i + k - 1)],
              LAMBDA r : r.summary.src = "line")

\* lines 297-333 and 348-351: the parsed results of the batch starting at i,
\* one per record, in batch order
SummarizeBatch(lines, i) ==
    [k \in 1..StageBatchLen(i) |-> ParseSummary(lines, k, i + k - 1)]

\* a variant of the fallback that keeps no title
TitleSummary_NoTitle(i) == [id |-> i, summary |-> LineText(0), sentiment |-> "neutral"]

\* lines 355-358: the fallback of a batch whose call raised
TitleSummary(i) == [id |-> i, summary |-> TitleOf(i), sentiment |-> "neutral"]

StagesInit(fn) ==
    /\ stage = fn
    /\ stN \in 0..MaxStagePosts
    /\ stPc = "run"
    /\ stPos = 0
    /\ stOut = <<>>
    /\ stResp = [kind |-> "none", lines |-> <<>>]
    /\ stFailed = {}
    /\ stCalls = 0
    /\ stBatches = <<>>

\* lines 343-351: one batch of summarize_posts, the call returns
SummarizeBatchOk ==
    /\ stage = "summarize" /\ stPc = "run" /\ stPos < stN
    /\ \E lines \in SummaryResponses :
        /\ stResp' = [kind |-> "lines", lines |-> lines]
        /\ stOut' = stOut \o SummarizeBatch(lines, stPos)
    /\ stPos' = stPos + BATCH_SIZE
    /\ stCalls' = stCalls + 1
    /\ stBatches' = Append(stBatches, StageBatch(stPos))
    /\ UNCHANGED <<stage, stN, stPc, stFailed>>
    /\ UNCHANGED othersStages

\* lines 352-358: the call raised after the retries
SummarizeBatchRaise ==
    /\ stage = "summarize" /\ stPc = "run" /\ stPos < stN
    /\ stResp' = [kind |-> "raised", lines |-> <<>>]
    /\ stOut' = stOut \o [k \in 1..StageBatchLen(stPos) |-> TitleSummary(stPos + k - 1)]
    /\ stFailed' = stFailed \cup {stPos}
    /\ stPos' = stPos + BATCH_SIZE
    /\ stCalls' = stCalls + 1
    /\ stBatches' = Append(stBatches, StageBatch(stPos))
    /\ UNCHANGED <<stage, stN, stPc>>
    /\ UNCHANGED othersStages

\* lines 363-364 and 466: the loop is over, the list is returned
StageReturn ==
    /\ stPc = "run" /\ stPos >= stN
    /\ stPc' = "done"
    /\ UNCHANGED <<stage, stN, stPos, stOut, stResp, stFailed, stCalls, stBatches>>
    /\ UNCHANGED othersStages

\* What a categorization line says after its first colon: text int()
\* rejects, or an integer.
CategoryLines ==
    [prefix : 0..BATCH_SIZE, parses : {FALSE}, num : {0}] \cup
    [prefix : 0..BATCH_SIZE, parses : {TRUE}, num : -1 .. (Len(Categories) + 1)]

CategoryResponses ==
    UNION { [1..k -> CategoryLines] : k \in 0..MaxRespLines }

\* mutant: the lower bound of the range test is off by one
InRange_FromZero(cat_num, categories) == 0 <= cat_num /\ cat_num <= Len(categories)

\* line 419
InRange(cat_num, categories) == 1 <= cat_num /\ cat_num <= Len(categories)

\* lines 416-426 for record number k of the batch
ParseCategory(lines, k, categories) ==
    LET p == FindLine(lines, k) IN
    IF p = 0 THEN "Uncategorized"
    ELSE IF ~lines[p].parses THEN "Uncategorized"
    ELSE IF InRange(lines[p].num, categories)
         THEN At0(categories, lines[p].num - 1)
         ELSE "Uncategorized"

\* lines 438-445: one batch of categorize_posts, the call returns
CategorizeBatchOk ==
    /\ stage = "categorize" /\ stPc = "run" /\ stPos < stN
    /\ \E lines \in CategoryResponses :
        /\ stResp' = [kind |-> "lines", lines |-> lines]
        /\ stOut' = stOut \o [k \in 1..StageBatchLen(stPos) |->
                        [id |-> stPos + k - 1,
                         category |-> ParseCategory(lines, k, Categories)]]
    /\ stPos' = stPos + BATCH_SIZE
    /\ stCalls' = stCalls + 1
    /\ stBatches' = Append(stBatches, StageBatch(stPos))
    /\ UNCHANGED <<stage, stN, stPc, stFailed>>
    /\ UNCHANGED othersStages

\* lines 446-451: the call raised after the retries
CategorizeBatchRaise ==
    /\ stage = "categorize" /\ stPc = "run" /\ stPos < stN
    /\ stResp' = [kind |-> "raised", lines |-> <<>>]
    /\ stOut' = stOut \o [k \in 1..StageBatchLen(stPos) |->
                    [id |-> stPos + k - 1, category |-> "Uncategorized"]]
    /\ stFailed' = stFailed \cup {stPos}
    /\ stPos' = stPos + BATCH_SIZE
    /\ stCalls' = stCalls + 1
    /\ stBatches' = Append(stBatches, StageBatch(stPos))
    /\ UNCHANGED <<stage, stN, stPc>>
    /\ UNCHANGED othersStages

\* the clustering engine's variables while another part is modelled
ClusterIdle ==
    /\ numPosts = 0
    /\ mcs = 2
    /\ pc = "done"
    /\ clusters = EmptyDict
    /\ response = NoResponse
    /\ sampleClusters = EmptyDict
    /\ themes = {}
    /\ pos = 0
    /\ jdx = 0
    /\ scan = <<>>
    /\ calls = NoCalls

InitStages ==
    /\ ClusterIdle
    /\ BackendIdle
    /\ InsightsIdle
    /\ GatewayIdle
    /\ \E fn \in {"summarize", "categorize"} : StagesInit(fn)

NextStages ==
    \/ SummarizeBatchOk
    \/ SummarizeBatchRaise
    \/ CategorizeBatchOk
    \/ CategorizeBatchRaise
    \/ StageReturn

SpecStages == InitStages /\ [][NextStages]_vars

(***************************************************************************)
(* Part III.  generate_insights_llm_clustering.  A record is identified by *)
(* its position in posts (its "id"); insPosts gives its category label.    *)
(* One step per oracle-bound call and per iteration of the cluster loop.   *)
(***************************************************************************)
\* the labels a record may carry: a category, or the label of a record
\* that categorize_batch could not place
Labels == Range(Categories) \cup {"Uncategorized"}

\* generate_insights_llm_clustering is given up to one record more than the
\* sample size, so that a category takes the direct path or the phased one
MaxInsightPosts == INITIAL_SAMPLE_SIZE + 1

RECURSIVE CatPostsUpTo_WithSentinel(_, _, _)
\* a variant of the filter that also lets the Uncategorized records through
CatPostsUpTo_WithSentinel(posts, cat, n) ==
    IF n = 0 THEN <<>>
    ELSE LET rest == CatPostsUpTo_WithSentinel(posts, cat, n - 1) IN
         IF posts[n] = cat \/ posts[n] = "Uncategorized"
         THEN Append(rest, n - 1) ELSE rest

RECURSIVE CatPostsUpTo(_, _, _)
\* line 803: the ids of the first n records of posts labelled cat, in order
CatPostsUpTo(posts, cat, n) ==
    IF n = 0 THEN <<>>
    ELSE LET rest == CatPostsUpTo(posts, cat, n - 1) IN
         IF posts[n] = cat THEN Append(rest, n - 1) ELSE rest

\* cat_posts
CatPosts(posts, cat) == CatPostsUpTo(posts, cat, Len(posts))

\* line 833 and 892: [cat_posts[i] for i in post_indices if i < len(cat_posts)]
ClusterPosts(cat_posts, post_indices) ==
    LET kept == SelectSeq(post_indices, LAMBDA i : i < Len(cat_posts)) IN
    [k \in 1..Len(kept) |-> At0(cat_posts, kept[k])]

\* the set of dicts cls with index idx appended to any one cluster
AssignAny(cls, idx) ==
    UNION { { [cl EXCEPT ![k] = Append(@, idx)] : k \in DOMAIN cl } : cl \in cls }

RECURSIVE Phase3Results(_, _, _)
\* phase 3 over the indices idx..m-1: a response line may send a record to
\* any existing cluster (the fallbacks send it to one of them too)
Phase3Results(cls, idx, m) ==
    IF idx >= m THEN cls ELSE Phase3Results(AssignAny(cls, idx), idx + 1, m)

\* what llm_cluster_posts may return for m records when nothing raises
LlmClusterReturns(m, min_cluster_size) ==
    IF m <= INITIAL_SAMPLE_SIZE
    THEN { ClusterInitialSample(r, m, min_cluster_size) : r \in ClusterResponses(m) }
    ELSE Phase3Results(
             { ClusterInitialSample(r, INITIAL_SAMPLE_SIZE, min_cluster_size) :
                 r \in ClusterResponses(INITIAL_SAMPLE_SIZE) },
             INITIAL_SAMPLE_SIZE, m)

\* an insight record: which path made it, the cluster it came from (-1 when
\* none), linked_posts and cluster_size
Insight(kind, cid, linked) ==
    [kind |-> kind, cid |-> cid, linked |-> linked, size |-> Len(linked)]

\* the category of the current iteration and its records
CurCat == Categories[catIdx]
CurPosts == CatPosts(insPosts, CurCat)

\* the next cluster of "for cluster_id, post_indices in sorted(clusters.items())"
NextClusterId == CHOOSE k \in DOMAIN curClusters \ curDone :
                     \A o \in DOMAIN curClusters \ curDone : k <= o

\* insights_db[cat] = value, then on to the next category
Record(value) ==
    /\ insDb' = (CurCat :> value) @@ insDb
    /\ catIdx' = catIdx + 1
    /\ insPc' = "cat"
    /\ curClusters' = <<>>
    /\ curDone' = {}
    /\ catInsights' = <<>>

InitInsights ==
    /\ ClusterIdle
    /\ BackendIdle
    /\ StagesIdle
    /\ GatewayIdle
    /\ insPosts \in UNION { [1..n -> Labels] : n \in 0..MaxInsightPosts }
    /\ insMcs \in MinClusterSizes
    /\ insPc = "cat"
    /\ catIdx = 1
    /\ insDb = <<>>
    /\ curClusters = <<>>
    /\ curDone = {}
    /\ catInsights = <<>>
    /\ raisedCats = {}
    /\ failedCats = {}
    /\ clusteredCats = {}

InCatLoop == insPc = "cat" /\ catIdx <= Len(Categories)

\* a variant of the test of line 810 that sends a lone record to clustering
NeedsClustering_FromOne(cat_posts) == Len(cat_posts) >= 1

\* line 810, negated: "if len(cat_posts) < 2" takes the single-record path
NeedsClustering(cat_posts) == Len(cat_posts) >= 2

\* lines 804-806
SkipEmpty ==
    /\ InCatLoop
    /\ CurPosts = <<>>
    /\ catIdx' = catIdx + 1
    /\ UNCHANGED <<insPosts, insMcs, insPc, insDb, curClusters, curDone,
                   catInsights, raisedCats, failedCats, clusteredCats>>
    /\ UNCHANGED othersInsights

\* lines 811-823: one record, generate_single_insight returns
SingleOk ==
    /\ InCatLoop
    /\ CurPosts # <<>> /\ ~NeedsClustering(CurPosts)
    /\ Record(<<Insight("single", -1, <<CurPosts[1]>>)>>)
    /\ UNCHANGED <<insPosts, insMcs, raisedCats, failedCats, clusteredCats>>
    /\ UNCHANGED othersInsights

\* line 814 raises: nothing catches it, the exception leaves the function
SingleRaise ==
    /\ InCatLoop
    /\ CurPosts # <<>> /\ ~NeedsClustering(CurPosts)
    /\ insPc' = "aborted"
    /\ failedCats' = failedCats \cup {CurCat}
    /\ UNCHANGED <<insPosts, insMcs, catIdx, insDb, curClusters, curDone,
                   catInsights, raisedCats, clusteredCats>>
    /\ UNCHANGED othersInsights

\* line 828: llm_cluster_posts returns the clusters it built
ClusterReturn ==
    /\ InCatLoop
    /\ NeedsClustering(CurPosts)
    /\ curClusters' \in LlmClusterReturns(Len(CurPosts), insMcs)
    /\ insPc' = "loop"
    /\ curDone' = {}
    /\ catInsights' = <<>>
    /\ clusteredCats' = clusteredCats \cup {CurCat}
    /\ UNCHANGED <<insPosts, insMcs, catIdx, insDb, raisedCats, failedCats>>
    /\ UNCHANGED othersInsights

\* line 828: a call inside llm_cluster_posts raised and it returned its
\* fallback (lines 740-742, 776-779)
ClusterFallback ==
    /\ InCatLoop
    /\ NeedsClustering(CurPosts)
    /\ curClusters' = SingleCluster(Len(CurPosts))
    /\ raisedCats' = raisedCats \cup {CurCat}
    /\ insPc' = "loop"
    /\ curDone' = {}
    /\ catInsights' = <<>>
    /\ clusteredCats' = clusteredCats \cup {CurCat}
    /\ UNCHANGED <<insPosts, insMcs, catIdx, insDb, failedCats>>
    /\ UNCHANGED othersInsights

InClusterLoop == insPc = "loop" /\ DOMAIN curClusters \ curDone # {}

\* a variant of the floor test that lets every non-empty cluster through
MeetsFloor_NonEmpty(cluster_posts, min_cluster_size) == Len(cluster_posts) >= 1

\* line 835, negated: "if len(cluster_posts) < min_cluster_size: continue"
MeetsFloor(cluster_posts, min_cluster_size) == Len(cluster_posts) >= min_cluster_size

\* lines 833-837: the cluster is too small, it is skipped
LoopSkip ==
    /\ InClusterLoop
    /\ ~MeetsFloor(ClusterPosts(CurPosts, curClusters[NextClusterId]), insMcs)
    /\ curDone' = curDone \cup {NextClusterId}
    /\ UNCHANGED <<insPosts, insMcs, insPc, catIdx, insDb, curClusters,
                   catInsights, raisedCats, failedCats, clusteredCats>>
    /\ UNCHANGED othersInsights

\* lines 839-895: the synthesis call of the cluster returns
LoopSynthOk ==
    /\ InClusterLoop
    /\ MeetsFloor(ClusterPosts(CurPosts, curClusters[NextClusterId]), insMcs)
    /\ catInsights' = Append(catInsights,
            Insight("cluster", NextClusterId,
                    ClusterPosts(CurPosts, curClusters[NextClusterId])))
    /\ curDone' = curDone \cup {NextClusterId}
    /\ UNCHANGED <<insPosts, insMcs, insPc, catIdx, insDb, curClusters,
                   raisedCats, failedCats, clusteredCats>>
    /\ UNCHANGED othersInsights

\* line 886 raises: control goes to the except branch of line 914
LoopSynthRaise ==
    /\ InClusterLoop
    /\ MeetsFloor(ClusterPosts(CurPosts, curClusters[NextClusterId]), insMcs)
    /\ insPc' = "except"
    /\ failedCats' = failedCats \cup {CurCat}
    /\ UNCHANGED <<insPosts, insMcs, catIdx, insDb, curClusters, curDone,
                   catInsights, raisedCats, clusteredCats>>
    /\ UNCHANGED othersInsights

\* lines 899-912 after the loop: with insights, they are recorded; without,
\* the category-wide synthesis is next
LoopEnd ==
    /\ insPc = "loop" /\ DOMAIN curClusters \ curDone = {}
    /\ IF catInsights = <<>>
       THEN /\ insPc' = "all"
            /\ UNCHANGED <<catIdx, insDb, curClusters, curDone, catInsights>>
       ELSE Record(catInsights)
    /\ UNCHANGED <<insPosts, insMcs, raisedCats, failedCats, clusteredCats>>
    /\ UNCHANGED othersInsights

\* lines 902-912: generate_category_insight returns
AllOk ==
    /\ insPc = "all"
    /\ Record(<<Insight("all", -1, CurPosts)>>)
    /\ UNCHANGED <<insPosts, insMcs, raisedCats, failedCats, clusteredCats>>
    /\ UNCHANGED othersInsights

\* line 902 raises: control goes to the except branch of line 914
AllRaise ==
    /\ insPc = "all"
    /\ insPc' = "except"
    /\ failedCats' = failedCats \cup {CurCat}
    /\ UNCHANGED <<insPosts, insMcs, catIdx, insDb, curClusters, curDone,
                   catInsights, raisedCats, clusteredCats>>
    /\ UNCHANGED othersInsights

\* a variant that keeps the insights built before the failure
FallbackValue_KeepBuilt(built, posts) == built \o <<Insight("fallback", -1, posts)>>

\* lines 917-926: insights_db[cat] is a new list of one insight over all the
\* records of the category; cat_insights is not used
FallbackValue(built, posts) == <<Insight("fallback", -1, posts)>>

\* lines 917-926: the fallback synthesis returns
ExceptOk ==
    /\ insPc = "except"
    /\ Record(FallbackValue(catInsights, CurPosts))
    /\ UNCHANGED <<insPosts, insMcs, raisedCats, failedCats, clusteredCats>>
    /\ UNCHANGED othersInsights

\* lines 927-929: the fallback synthesis raises too
ExceptRaise ==
    /\ insPc = "except"
    /\ Record(<<>>)
    /\ UNCHANGED <<insPosts, insMcs, raisedCats, failedCats, clusteredCats>>
    /\ UNCHANGED othersInsights

\* line 934
InsightsReturn ==
    /\ insPc = "cat" /\ catIdx > Len(Categories)
    /\ insPc' = "done"
    /\ UNCHANGED <<insPosts, insMcs, catIdx, insDb, curClusters, curDone,
                   catInsights, raisedCats, failedCats, clusteredCats>>
    /\ UNCHANGED othersInsights

NextInsights ==
    \/ SkipEmpty
    \/ SingleOk
    \/ SingleRaise
    \/ ClusterReturn
    \/ ClusterFallback
    \/ LoopSkip
    \/ LoopSynthOk
    \/ LoopSynthRaise
    \/ LoopEnd
    \/ AllOk
    \/ AllRaise
    \/ ExceptOk
    \/ ExceptRaise
    \/ InsightsReturn

SpecInsights == InitInsights /\ [][NextInsights]_vars

(***************************************************************************)
(* Part IV.  The oracle gateway: safe_llm_call(fn, retries=3, delay=3).    *)
(* One step per call of fn.  A call of fn returns a value or raises one of *)
(* several errors; what attempt k produced is tagged with k, so that the   *)
(* result handed to the caller can be traced to the attempt it came from.  *)
(***************************************************************************)
\* the exceptions a call of fn may raise
Errors == {"network", "malformed", "oracle"}

RECURSIVE Pow2(_)
\* 2 ** i
Pow2(i) == IF i = 0 THEN 1 ELSE 2 * Pow2(i - 1)

\* a variant of the wait that does not grow
WaitTime_Constant(delay, i) == delay

\* line 104: wait_time = delay * (2 ** i)
WaitTime(delay, i) == delay * Pow2(i)

InitGateway ==
    /\ ClusterIdle
    /\ BackendIdle
    /\ StagesIdle
    /\ InsightsIdle
    /\ gwRetries \in 1..MaxRetries
    /\ gwDelay \in 1..MaxDelay
    /\ gwPc = "run"
    /\ gwI = 0
    /\ gwOutcomes = <<>>
    /\ gwWaits = <<>>
    /\ gwResult = [kind |-> "none", attempt |-> 0]

\* lines 98-100: the call of fn returns, safe_llm_call returns its value
AttemptOk ==
    /\ gwPc = "run" /\ gwI < gwRetries
    /\ gwOutcomes' = Append(gwOutcomes, "ok")
    /\ gwResult' = [kind |-> "value", attempt |-> gwI]
    /\ gwPc' = "returned"
    /\ UNCHANGED <<gwRetries, gwDelay, gwI, gwWaits>>
    /\ UNCHANGED othersGateway

\* lines 101-105: the call of fn raises and another attempt is left; the
\* gateway sleeps and goes round the loop
AttemptFailRetry ==
    /\ gwPc = "run" /\ gwI < gwRetries
    /\ gwI < gwRetries - 1
    /\ \E e \in Errors : gwOutcomes' = Append(gwOutcomes, e)
    /\ gwWaits' = Append(gwWaits, WaitTime(gwDelay, gwI))
    /\ gwI' = gwI + 1
    /\ UNCHANGED <<gwRetries, gwDelay, gwPc, gwResult>>
    /\ UNCHANGED othersGateway

\* lines 101-107: the call of fn raises on the last attempt; the bare raise
\* hands the exception being handled to the caller
AttemptFailRaise ==
    /\ gwPc = "run" /\ gwI < gwRetries
    /\ ~(gwI < gwRetries - 1)
    /\ \E e \in Errors :
        /\ gwOutcomes' = Append(gwOutcomes, e)
        /\ gwResult' = [kind |-> e, attempt |-> gwI]
    /\ gwPc' = "raised"
    /\ UNCHANGED <<gwRetries, gwDelay, gwI, gwWaits>>
    /\ UNCHANGED othersGateway

NextGateway ==
    \/ AttemptOk
    \/ AttemptFailRetry
    \/ AttemptFailRaise

SpecGateway == InitGateway /\ [][NextGateway]_vars

(***************************************************************************)
(* Part V.  The dashboard API (src/backend/app.py): POST /pipeline/run     *)
(* creates a job and starts a thread running run_pipeline_process, which   *)
(* runs the pipeline script as a subprocess and then looks for its output. *)
(* Threads and their subprocesses interleave freely; one step per          *)
(* statement that reads or writes jobs, subreddit_data or the output       *)
(* directory.  A directory is identified by the subreddit in its name and  *)
(* by the job whose process made it (0: it was there at startup); the      *)
(* content of its dashboard_data.json is identified with the directory.    *)
(***************************************************************************)
\* subreddit names; a directory is named "<subreddit>_<date>_<time>", so
\* the name of a directory of the second starts with "<first>_" as well
Subreddits == {"news", "news_uk"}
PrefixPairs == {<<"news", "news_uk">>}

\* item.name.startswith(f"{subreddit}_") (line 62)
NamePrefix(subreddit, dir_sub) ==
    dir_sub = subreddit \/ <<subreddit, dir_sub>> \in PrefixPairs

\* no directory / None
NoDir == [sub |-> "none", by |-> -1]

\* the identity of a directory, and of the data loaded from it
DirId(d) == [sub |-> d.sub, by |-> d.by]

RECURSIVE LatestFrom(_, _, _)
\* the position of the latest of the first k directories whose subreddit
\* is one of names; 0 when there is none
LatestFrom(dirs, names, k) ==
    IF k = 0 THEN 0
    ELSE IF dirs[k].sub \in names THEN k
    ELSE LatestFrom(dirs, names, k - 1)

\* find_latest_output(subreddit), lines 54-70
FindLatestOutput(dirs, subreddit) ==
    LET k == LatestFrom(dirs, {n \in Subreddits : NamePrefix(subreddit, n)},
                        Len(dirs)) IN
    IF k = 0 THEN NoDir ELSE DirId(dirs[k])

\* load_dashboard_data(output_path), lines 46-52: None without the file
LoadDashboardData(dirs, path) ==
    IF \E k \in DOMAIN dirs : DirId(dirs[k]) = path /\ dirs[k].dash
    THEN path ELSE NoDir

\* load_existing_data, lines 429-478: the subreddit is read back from the
\* directory name, and only the latest directory of a subreddit is tried
StartupData(dirs) ==
    LET latest(sub) == LatestFrom(dirs, {sub}, Len(dirs))
        loaded == {sub \in Subreddits :
                      latest(sub) # 0 /\ dirs[latest(sub)].dash}
    IN [sub \in loaded |->
            [data |-> DirId(dirs[latest(sub)]),
             output_path |-> DirId(dirs[latest(sub)])]]

\* the directories the server may find when it starts
OldDirs ==
    {<<>>} \cup { <<[sub |-> sub, by |-> 0, dash |-> dash]>> :
                     sub \in Subreddits, dash \in BOOLEAN }

\* a variant of job creation in which the job is born running
NewJob_Running(subreddit) ==
    [sub |-> subreddit, status |-> "running", pc |-> "queued", rc |-> -1,
     fate |-> "none", found |-> NoDir, stored |-> NoDir, output_path |-> NoDir]

\* lines 306-312: the job as POST /pipeline/run creates it
NewJob(subreddit) ==
    [sub |-> subreddit, status |-> "queued", pc |-> "queued", rc |-> -1,
     fate |-> "none", found |-> NoDir, stored |-> NoDir, output_path |-> NoDir]

\* GET /data/{subreddit}, lines 384-392
GetSubredditData(subreddit) ==
    IF subreddit \notin DOMAIN subredditData
    THEN [code |-> 404, data |-> NoDir]
    ELSE [code |-> 200, data |-> subredditData[subreddit].data]

InitBackend ==
    /\ ClusterIdle
    /\ StagesIdle
    /\ InsightsIdle
    /\ GatewayIdle
    /\ outputDirs \in OldDirs
    /\ subredditData = StartupData(outputDirs)
    /\ jobs = <<>>
    /\ completedOrder = <<>>

\* lines 300-327: POST /pipeline/run with a non-empty subreddit name
Submit(subreddit) ==
    /\ Len(jobs) < MaxJobs
    /\ jobs' = Append(jobs, NewJob(subreddit))
    /\ UNCHANGED <<subredditData, outputDirs, completedOrder>>
    /\ UNCHANGED othersBackend

\* lines 78-79: the thread starts
Start(j) ==
    /\ jobs[j].pc = "queued"
    /\ jobs' = [jobs EXCEPT ![j].status = "running", ![j].pc = "proc"]
    /\ UNCHANGED <<subredditData, outputDirs, completedOrder>>
    /\ UNCHANGED othersBackend

\* lines 229-236: the thread raises before the subprocess has run (the
\* update-mode code, subprocess.run itself)
ThreadRaise(j) ==
    /\ jobs[j].pc = "proc"
    /\ jobs' = [jobs EXCEPT ![j].status = "failed", ![j].pc = "end"]
    /\ UNCHANGED <<subredditData, outputDirs, completedOrder>>
    /\ UNCHANGED othersBackend

\* the pipeline script, run_pipeline lines 1325-1327: no posts were found,
\* it returns and the process exits with code 0 having written nothing
ProcNoPosts(j) ==
    /\ jobs[j].pc = "proc"
    /\ jobs' = [jobs EXCEPT ![j].rc = 0, ![j].fate = "noposts", ![j].pc = "exited"]
    /\ UNCHANGED <<subredditData, outputDirs, completedOrder>>
    /\ UNCHANGED othersBackend

\* run_pipeline lines 1342-1346: an exception before save_outputs is
\* re-raised and the process exits with a non-zero code
ProcCrash(j) ==
    /\ jobs[j].pc = "proc"
    /\ jobs' = [jobs EXCEPT ![j].rc = 1, ![j].fate = "crash", ![j].pc = "exited"]
    /\ UNCHANGED <<subredditData, outputDirs, completedOrder>>
    /\ UNCHANGED othersBackend

\* save_outputs, lines 1043-1045: the process makes its output directory
ProcSaveOutputs(j) ==
    /\ jobs[j].pc = "proc"
    /\ outputDirs' = Append(outputDirs, [sub |-> jobs[j].sub, by |-> j, dash |-> FALSE])
    /\ jobs' = [jobs EXCEPT ![j].pc = "dash"]
    /\ UNCHANGED <<subredditData, completedOrder>>
    /\ UNCHANGED othersBackend

\* the directories with the one at position k given its dashboard file,
\* which makes it the one modified last
WriteDashboard(dirs, k) ==
    Append(SelectSeq(dirs, LAMBDA d : d # dirs[k]), [dirs[k] EXCEPT !.dash = TRUE])

\* generate_dashboard_json, lines 1248-1250, and the exit with code 0
ProcDashboard(j) ==
    /\ jobs[j].pc = "dash"
    /\ \E k \in DOMAIN outputDirs :
        /\ outputDirs[k].by = j
        /\ outputDirs' = WriteDashboard(outputDirs, k)
    /\ jobs' = [jobs EXCEPT ![j].rc = 0, ![j].fate = "wrote", ![j].pc = "exited"]
    /\ UNCHANGED <<subredditData, completedOrder>>
    /\ UNCHANGED othersBackend

\* an exception after the directory was made, before the dashboard file
ProcDashCrash(j) ==
    /\ jobs[j].pc = "dash"
    /\ jobs' = [jobs EXCEPT ![j].rc = 1, ![j].fate = "crash", ![j].pc = "exited"]
    /\ UNCHANGED <<subredditData, outputDirs, completedOrder>>
    /\ UNCHANGED othersBackend

\* lines 221-227: the return code is not 0
FailReturnCode(j) ==
    /\ jobs[j].pc = "exited"
    /\ jobs[j].rc # 0
    /\ jobs' = [jobs EXCEPT ![j].status = "failed", ![j].pc = "end"]
    /\ UNCHANGED <<subredditData, outputDirs, completedOrder>>
    /\ UNCHANGED othersBackend

\* lines 170-177 and 209-220: return code 0, find_latest_output
FindOutput(j) ==
    /\ jobs[j].pc = "exited"
    /\ jobs[j].rc = 0
    /\ LET output_path == FindLatestOutput(outputDirs, jobs[j].sub) IN
       jobs' = IF output_path = NoDir
               THEN [jobs EXCEPT ![j].status = "failed", ![j].pc = "end"]
               ELSE [jobs EXCEPT ![j].found = output_path, ![j].pc = "load"]
    /\ UNCHANGED <<subredditData, outputDirs, completedOrder>>
    /\ UNCHANGED othersBackend

\* lines 184-186 and 203-208: load_dashboard_data
LoadData(j) ==
    /\ jobs[j].pc = "load"
    /\ LET data == LoadDashboardData(outputDirs, jobs[j].found) IN
       jobs' = IF data = NoDir
               THEN [jobs EXCEPT ![j].status = "failed", ![j].pc = "end"]
               ELSE [jobs EXCEPT ![j].pc = "store"]
    /\ UNCHANGED <<subredditData, outputDirs, completedOrder>>
    /\ UNCHANGED othersBackend

\* lines 193-197
Store(j) ==
    /\ jobs[j].pc = "store"
    /\ subredditData' =
          (jobs[j].sub :> [data |-> jobs[j].found, output_path |-> jobs[j].found])
          @@ subredditData
    /\ jobs' = [jobs EXCEPT ![j].stored = jobs[j].found, ![j].pc = "stored"]
    /\ UNCHANGED <<outputDirs, completedOrder>>
    /\ UNCHANGED othersBackend

\* lines 198-200
Complete(j) ==
    /\ jobs[j].pc = "stored"
    /\ jobs' = [jobs EXCEPT ![j].status = "completed",
                            ![j].output_path = jobs[j].found,
                            ![j].pc = "end"]
    /\ completedOrder' = Append(completedOrder, j)
    /\ UNCHANGED <<subredditData, outputDirs>>
    /\ UNCHANGED othersBackend

NextBackend ==
    \/ \E subreddit \in Subreddits : Submit(subreddit)
    \/ \E j \in DOMAIN jobs : Start(j)
    \/ \E j \in DOMAIN jobs : ThreadRaise(j)
    \/ \E j \in DOMAIN jobs : ProcNoPosts(j)
    \/ \E j \in DOMAIN jobs : ProcCrash(j)
    \/ \E j \in DOMAIN jobs : ProcSaveOutputs(j)
    \/ \E j \in DOMAIN jobs : ProcDashboard(j)
    \/ \E j \in DOMAIN jobs : ProcDashCrash(j)
    \/ \E j \in DOMAIN jobs : FailReturnCode(j)
    \/ \E j \in DOMAIN jobs : FindOutput(j)
    \/ \E j \in DOMAIN jobs : LoadData(j)
    \/ \E j \in DOMAIN jobs : Store(j)
    \/ \E j \in DOMAIN jobs : Complete(j)

SpecBackend == InitBackend /\ [][NextBackend]_vars

(***************************************************************************)
(* Claims about the Clustering Engine (checked under SpecCluster).         *)
(***************************************************************************)
RECURSIVE SumCount(_, _, _)
\* the number of times x occurs in the clusters ids of cl, taken together
SumCount(cl, ids, x) ==
    IF ids = {} THEN 0
    ELSE LET k == CHOOSE k \in ids : TRUE IN
         Count(cl[k], x) + SumCount(cl, ids \ {k}, x)

\* the clusters of cl that hold index x
Holders(cl, x) == {k \in DOMAIN cl : x \in Range(cl[k])}

\* a parsed clusters_array was received by the latest clustering call
HasArray == response.kind = "array"

\* num_posts of the latest _cluster_initial_sample call
SampleLen == IF numPosts <= INITIAL_SAMPLE_SIZE THEN numPosts ELSE INITIAL_SAMPLE_SIZE

\* C1: when llm_cluster_posts has returned, the member lists of the clusters
\* taken together hold every index 0..M-1 exactly once, and nothing else.
C1_Partition ==
    pc = "done" =>
        /\ \A i \in 0 .. (numPosts - 1) : SumCount(clusters, DOMAIN clusters, i) = 1
        /\ \A k \in DOMAIN clusters : Range(clusters[k]) \subseteq 0 .. (numPosts - 1)

\* C5: the ids of the clusters that direct clustering hands back are exactly
\* 0..k-1 for k clusters, however many proposed clusters were rejected.
C5_ContiguousIds ==
    response # NoResponse =>
        DOMAIN clusters = 0 .. (Cardinality(DOMAIN clusters) - 1)

\* a response of three proposed clusters whose first one is emptied by the
\* filter and rejected, the two others accepted
C5_Witness ==
    /\ HasArray
    /\ Len(response.arr) = 3
    /\ ValidIndices(response.arr[1], SampleLen, {}) = <<>>
    /\ Cardinality(DOMAIN clusters) = 2

\* C6: an index the response lists in two different proposed clusters is
\* held by exactly one cluster of the result.
C6_OneHolder ==
    HasArray =>
        \A i \in 0 .. (SampleLen - 1) :
            (\E a, b \in DOMAIN response.arr :
                a # b /\ i \in Range(response.arr[a]) /\ i \in Range(response.arr[b]))
            => Cardinality(Holders(clusters, i)) = 1

\* an index listed in the first and in the second proposed cluster, both of
\* which were accepted
C6_Witness ==
    /\ HasArray
    /\ Len(response.arr) = 2
    /\ Cardinality(DOMAIN clusters) = 2
    /\ \E i \in 0 .. (SampleLen - 1) :
        i \in Range(response.arr[1]) /\ i \in Range(response.arr[2])

\* the clusters accepted from the response, before the unclaimed indices
\* are handled
Accepted == AcceptLoop(response.arr, Len(response.arr), SampleLen, mcs)

\* the indices 0..n-1 no accepted cluster claimed, in increasing order
Unclaimed == MissingIndices(SampleLen, Accepted.seen)

\* C7: the indices no accepted cluster claimed are appended, in order, to the
\* largest accepted cluster, the one accepted first on a tie, and every index
\* is covered; with no accepted cluster the result is the single cluster 0
\* holding 0..M-1.
C7_MissingToLargest ==
    HasArray =>
        LET acc == Accepted.clusters IN
        /\ \A i \in 0 .. (SampleLen - 1) : Holders(clusters, i) # {}
        /\ DOMAIN acc = {} =>
              /\ DOMAIN clusters = {0}
              /\ clusters[0] = RangeList(SampleLen)
        /\ DOMAIN acc # {} =>
              /\ DOMAIN clusters = DOMAIN acc
              /\ \E t \in DOMAIN acc :
                    /\ \A o \in DOMAIN acc : Len(acc[t]) >= Len(acc[o])
                    /\ \A o \in DOMAIN acc : Len(acc[t]) = Len(acc[o]) => t <= o
                    /\ clusters[t] = acc[t] \o Unclaimed
                    /\ \A o \in DOMAIN acc \ {t} : clusters[o] = acc[o]

\* two accepted clusters of the same size and an index neither claimed
C7_Witness ==
    /\ HasArray
    /\ Unclaimed # <<>>
    /\ LET acc == Accepted.clusters IN
       /\ Cardinality(DOMAIN acc) = 2
       /\ Len(acc[0]) = Len(acc[1])
       /\ Len(clusters[0]) > Len(acc[0])

\* no line naming the record parses to the id of a cluster
NoKnownLine(lines, cl) ==
    \A p \in DOMAIN lines : ~(lines[p].parses /\ lines[p].num \in DOMAIN cl)

\* C8: in phase 3 a record with no usable assignment line is appended to a
\* cluster that is largest when that record is handled, the records appended
\* earlier in phase 3 counted.
C8_CurrentLargest ==
    [][ (pc = "parse" /\ NoKnownLine(scan', clusters)) =>
          \E t \in DOMAIN clusters :
              /\ \A o \in DOMAIN clusters : Len(clusters[t]) >= Len(clusters[o])
              /\ clusters' = [clusters EXCEPT
                                ![t] = Append(@, INITIAL_SAMPLE_SIZE + pos + jdx)]
      ]_vars

\* the second record of the first sub-batch had no usable line and went to a
\* cluster that was not the largest when phase 3 (and the sub-batch) began
C8_Witness ==
    /\ pc \in {"phase3", "done"}
    /\ pos = AssignBatchSize
    /\ NoKnownLine(scan, clusters)
    /\ DOMAIN sampleClusters = DOMAIN clusters
    /\ \E t \in DOMAIN clusters :
        /\ clusters[t] # <<>>
        /\ clusters[t][Len(clusters[t])] = INITIAL_SAMPLE_SIZE + 1
        /\ \E o \in DOMAIN clusters :
              Len(sampleClusters[o]) > Len(sampleClusters[t])

(***************************************************************************)
(* Claims about the batched stages (checked under SpecStages).             *)
(***************************************************************************)
Sentiments == {"positive", "neutral", "negative"}

\* start and length of the batch handled last
LastStart == stPos - BATCH_SIZE
LastLen == StageBatchLen(LastStart)

\* the positions of the lines of the latest response naming record number k
LinesFor(k) == {p \in DOMAIN stResp.lines : stResp.lines[p].prefix = k}

\* the smallest element of a non-empty set of positions
MinOf(S) == CHOOSE p \in S : \A q \in S : p <= q

\* C2: whatever the oracle did, summarize_posts returns the input records,
\* same count and same order, each with a summary and a sentiment that is
\* positive, neutral or negative.
C2_SummarizeTotal ==
    (stage = "summarize" /\ stPc = "done") =>
        /\ Len(stOut) = stN
        /\ \A k \in 1..Len(stOut) :
            /\ stOut[k].id = k - 1
            /\ "summary" \in DOMAIN stOut[k]
            /\ stOut[k].sentiment \in Sentiments

\* three records: the call of the first batch raised, the response of the
\* second batch holds only lines naming no record
C2_Witness ==
    /\ stage = "summarize" /\ stPc = "done" /\ stN = 3
    /\ stFailed = {0}
    /\ stResp.kind = "lines"
    /\ stResp.lines # <<>>
    /\ \A p \in DOMAIN stResp.lines : stResp.lines[p].prefix = 0

\* C9: a record is mapped to categories[k-1] exactly when the line naming it
\* gives a number k with 1 <= k <= len(categories); for any other number, an
\* unparseable line or no line it is mapped to Uncategorized.
C9_CategoryRange ==
    (stage = "categorize" /\ stResp.kind = "lines") =>
        \A k \in 1..LastLen :
            LET cat == stOut[LastStart + k].category
                L == LinesFor(k)
                good == /\ L # {}
                        /\ stResp.lines[MinOf(L)].parses
                        /\ stResp.lines[MinOf(L)].num >= 1
                        /\ stResp.lines[MinOf(L)].num <= Len(Categories)
            IN /\ good => cat = Categories[stResp.lines[MinOf(L)].num]
               /\ ~good => cat = "Uncategorized"

\* a batch of two records answered with the numbers 0 and len(categories)+1
C9_Witness ==
    /\ stage = "categorize" /\ stResp.kind = "lines"
    /\ LastLen = 2
    /\ Len(stResp.lines) = 2
    /\ stResp.lines[1] = [prefix |-> 1, parses |-> TRUE, num |-> 0]
    /\ stResp.lines[2] = [prefix |-> 2, parses |-> TRUE, num |-> Len(Categories) + 1]
    /\ stOut[LastStart + 1].category = "Uncategorized"
    /\ stOut[LastStart + 2].category = "Uncategorized"

\* C10: a record of the batch that no response line names gets its title as
\* summary and neutral as sentiment; a record that a line names gets the
\* summary and the sentiment of the first such line, whatever happens to the
\* other records.
C10_MissingLineFallback ==
    (stage = "summarize" /\ stResp.kind = "lines") =>
        \A k \in 1..LastLen :
            LET rec == stOut[LastStart + k]
                L == LinesFor(k)
            IN /\ L = {} =>
                    /\ rec.summary = TitleOf(LastStart + k - 1)
                    /\ rec.sentiment = "neutral"
               /\ L # {} =>
                    /\ rec.summary = LineText(MinOf(L))
                    /\ rec.sentiment =
                         (CASE stResp.lines[MinOf(L)].form = "pos" -> "positive"
                            [] stResp.lines[MinOf(L)].form = "neg" -> "negative"
                            [] OTHER -> "neutral")

\* a batch of two records and a response whose only line names record 2
C10_Witness ==
    /\ stage = "summarize" /\ stResp.kind = "lines"
    /\ LastLen = 2
    /\ stResp.lines = <<[prefix |-> 2, form |-> "neg"]>>
    /\ stOut[LastStart + 1].summary = TitleOf(LastStart)
    /\ stOut[LastStart + 2].sentiment = "negative"


(***************************************************************************)
(* Claims about insight generation                                         *)
(***************************************************************************)
\* the loop over the categories has finished with category c
Processed(c) == \E k \in 1..Len(Categories) : Categories[k] = c /\ k < catIdx

\* the category is clustered by the direct path of llm_cluster_posts
Direct(c) == Len(CatPosts(insPosts, c)) <= INITIAL_SAMPLE_SIZE

\* C3: a category of at least two records whose direct-clustering call
\* raised and whose synthesis calls all succeeded is recorded with exactly
\* one insight, which links all the records of the category, and no
\* exception leaves the function while it is being processed.
C3_FallbackOneInsight ==
    \A c \in raisedCats \ failedCats :
        Direct(c) =>
            /\ ~(insPc = "aborted" /\ CurCat = c)
            /\ Processed(c) =>
                  /\ c \in DOMAIN insDb
                  /\ Len(insDb[c]) = 1
                  /\ insDb[c][1].linked = CatPosts(insPosts, c)
                  /\ insDb[c][1].size = Len(CatPosts(insPosts, c))

\* the function returned after the clustering of a category of two or more
\* records raised and its synthesis succeeded
C3_Witness ==
    /\ insPc = "done"
    /\ \E c \in raisedCats \ failedCats :
          /\ Direct(c)
          /\ Len(CatPosts(insPosts, c)) >= 2
          /\ c \in DOMAIN insDb
          /\ insDb[c][1].kind = "cluster"

\* C4: a synthesis call that fails for good in one category does not stop
\* the function: the category is recorded with an empty insight list and
\* every category with records is processed.
C4_FailureContained ==
    /\ insPc # "aborted"
    /\ \A c \in failedCats :
          Processed(c) => (c \in DOMAIN insDb /\ insDb[c] = <<>>)
    /\ insPc = "done" =>
          \A c \in Range(Categories) :
              CatPosts(insPosts, c) # <<>> => c \in DOMAIN insDb

\* C11: a category with exactly one record never reaches llm_cluster_posts;
\* once processed it is recorded with the one insight of the single-record
\* path, which links that record and has cluster_size 1.
C11_SingleNoClustering ==
    \A c \in Range(Categories) :
        Len(CatPosts(insPosts, c)) = 1 =>
            /\ c \notin clusteredCats
            /\ Processed(c) =>
                  /\ c \in DOMAIN insDb
                  /\ Len(insDb[c]) = 1
                  /\ insDb[c][1].kind = "single"
                  /\ insDb[c][1].linked = CatPosts(insPosts, c)
                  /\ insDb[c][1].size = 1

\* the function returned with a one-record category recorded, after it had
\* clustered another category
C11_Witness ==
    /\ insPc = "done"
    /\ clusteredCats # {}
    /\ \E c \in Range(Categories) :
          /\ Len(CatPosts(insPosts, c)) = 1
          /\ c \in DOMAIN insDb
          /\ insDb[c] # <<>>

(***************************************************************************)
(* Claims about the oracle gateway (checked under SpecGateway)             *)
(***************************************************************************)
\* the calls of fn made so far that raised
FailedAttempts == {k \in DOMAIN gwOutcomes : gwOutcomes[k] # "ok"}

\* C12: safe_llm_call calls fn at most retries times; it returns the value
\* of the first call that succeeds and calls no more; after the i-th failed
\* call (from 0) that is not the last it sleeps delay * 2^i, and not after
\* the last; when all retries calls fail it raises the error of the last.
C12_RetryContract ==
    /\ Len(gwOutcomes) <= gwRetries
    /\ \A k \in DOMAIN gwOutcomes : k < Len(gwOutcomes) => gwOutcomes[k] # "ok"
    /\ gwPc = "run" => Len(gwWaits) = Len(gwOutcomes) /\ FailedAttempts = DOMAIN gwOutcomes
    /\ gwPc = "returned" =>
          /\ gwOutcomes # <<>>
          /\ gwOutcomes[Len(gwOutcomes)] = "ok"
          /\ gwResult = [kind |-> "value", attempt |-> Len(gwOutcomes) - 1]
          /\ Len(gwWaits) = Len(gwOutcomes) - 1
    /\ gwPc = "raised" =>
          /\ Len(gwOutcomes) = gwRetries
          /\ FailedAttempts = DOMAIN gwOutcomes
          /\ gwResult = [kind |-> gwOutcomes[gwRetries], attempt |-> gwRetries - 1]
          /\ Len(gwWaits) = gwRetries - 1
    /\ \A k \in DOMAIN gwWaits : gwWaits[k] = gwDelay * (2 ^ (k - 1))

\* the defaults: two failed calls, waits of 3 and 6, and a third call that
\* fails with another error, which is the one raised
C12_Witness ==
    /\ gwRetries = 3 /\ gwDelay = 3
    /\ gwPc = "raised"
    /\ gwWaits = <<3, 6>>
    /\ gwOutcomes = <<"network", "network", "malformed">>
    /\ gwResult.kind = "malformed"

(***************************************************************************)
(* Claims about batching (checked under SpecStages)                        *)
(***************************************************************************)
RECURSIVE Flatten(_)
\* the concatenation of a list of lists
Flatten(ss) == IF ss = <<>> THEN <<>>
               ELSE Flatten(SubSeq(ss, 1, Len(ss) - 1)) \o ss[Len(ss)]

\* ceil(n / b)
CeilDiv(n, b) == (n + b - 1) \div b

\* C13: the batches formed so far are consecutive slices of the input, each
\* of BATCH_SIZE records except possibly the last one of the input, one
\* oracle call each; when the stage returns there are ceil(N / BATCH_SIZE) of
\* them and their concatenation is the input; for N = 0 there is no batch
\* and no call.
C13_Batches ==
    /\ stCalls = Len(stBatches)
    /\ Flatten(stBatches) = RangeList(Len(Flatten(stBatches)))
    /\ \A k \in DOMAIN stBatches :
          /\ stBatches[k] # <<>>
          /\ stBatches[k][1] = (k - 1) * BATCH_SIZE
          /\ Len(stBatches[k]) <= BATCH_SIZE
          /\ Len(stBatches[k]) < BATCH_SIZE =>
                (k - 1) * BATCH_SIZE + Len(stBatches[k]) = stN
    /\ (stage # "none" /\ stPc = "done") =>
          /\ Len(stBatches) = CeilDiv(stN, BATCH_SIZE)
          /\ Flatten(stBatches) = RangeList(stN)
          /\ stN = 0 => stCalls = 0

\* three records with BATCH_SIZE 2: a full batch and a last batch of one
C13_Witness ==
    /\ stage = "categorize" /\ stPc = "done"
    /\ stN = 3
    /\ stBatches = << <<0, 1>>, <<2>> >>

(***************************************************************************)
(* Claims about the job runner (checked under SpecBackend)                 *)
(***************************************************************************)
\* C14: a job whose pipeline run acquired no records is never completed and
\* stores nothing: no earlier output is stored as the result of that run.
C14_FailureSurfaced ==
    \A j \in DOMAIN jobs :
        jobs[j].fate = "noposts" =>
            /\ jobs[j].status # "completed"
            /\ jobs[j].stored = NoDir

\* the status a job may take in one step, given the status it has
StatusSteps == {<<"queued", "running">>, <<"running", "completed">>,
                <<"running", "failed">>}

\* C15: a job is created queued, and its status only ever steps from queued
\* to running and from running to completed or to failed; a completed or
\* failed job keeps its status.
C15_Lifecycle ==
    [][ \A j \in DOMAIN jobs' :
          IF j \notin DOMAIN jobs
          THEN jobs'[j].status = "queued"
          ELSE \/ jobs'[j].status = jobs[j].status
               \/ <<jobs[j].status, jobs'[j].status>> \in StatusSteps
      ]_vars

\* two jobs at the end of their threads, one completed and one failed
C15_Witness ==
    /\ Len(jobs) = 2
    /\ jobs[1].pc = "end" /\ jobs[1].status = "failed"
    /\ jobs[2].pc = "end" /\ jobs[2].status = "completed"

\* the jobs for the subreddit that became completed, in order
CompletedFor(subreddit) ==
    SelectSeq(completedOrder, LAMBDA j : jobs[j].sub = subreddit)

\* the directories that were there at startup
StartupDirs == SelectSeq(outputDirs, LAMBDA d : d.by = 0)

\* C16: once every thread has ended, what GET /data/{subreddit} answers is
\* the data stored by the job for that subreddit that completed last, or the
\* data loaded at startup when no job for it completed, or 404 when there is
\* neither.
C16_ServesLatestCompleted ==
    (\A j \in DOMAIN jobs : jobs[j].pc = "end") =>
        \A s \in Subreddits :
            LET done == CompletedFor(s) IN
            IF done # <<>>
            THEN GetSubredditData(s) =
                    [code |-> 200, data |-> jobs[done[Len(done)]].stored]
            ELSE IF s \in DOMAIN StartupData(StartupDirs)
            THEN GetSubredditData(s) =
                    [code |-> 200, data |-> StartupData(StartupDirs)[s].data]
            ELSE GetSubredditData(s).code = 404

(***************************************************************************)
(* More claims about insight generation (checked under SpecInsights)       *)
(***************************************************************************)
\* the records the insights of a list link
LinkedBy(insights) == UNION { Range(insights[k].linked) : k \in DOMAIN insights }

\* C17: when a category of two or more records is recorded with a non-empty
\* insight list, every record of the category is linked by at least one of
\* the insights, whatever the oracle answered.
C17_NoRecordLost ==
    \A c \in DOMAIN insDb :
        (Len(CatPosts(insPosts, c)) >= 2 /\ insDb[c] # <<>>) =>
            Range(CatPosts(insPosts, c)) \subseteq LinkedBy(insDb[c])

\* a category larger than the sample, clustered in phases and recorded with
\* two cluster insights
C17_Witness ==
    /\ insPc = "done"
    /\ \E c \in DOMAIN insDb :
          /\ Len(CatPosts(insPosts, c)) > INITIAL_SAMPLE_SIZE
          /\ Len(insDb[c]) = 2
          /\ insDb[c][1].kind = "cluster"
          /\ c \notin raisedCats

(***************************************************************************)
(* More claims about the Clustering Engine (checked under SpecCluster)     *)
(***************************************************************************)
\* the loop of lines 540-545 after the first a proposed arrays
AccAfter(a) == AcceptLoop(response.arr, a, SampleLen, mcs)

\* the id of the cluster built from proposed array a; -1 when the array was
\* rejected
BuiltFrom(a) ==
    IF AccAfter(a).next > AccAfter(a - 1).next THEN AccAfter(a - 1).next ELSE -1

\* the proposed arrays that list index i
ArraysWith(i) == {a \in DOMAIN response.arr : i \in Range(response.arr[a])}

\* the indices of the sample that more than one proposed array lists
MultiListed == {i \in 0 .. (SampleLen - 1) : Cardinality(ArraysWith(i)) >= 2}

\* C18 as stated: an index listed in more than one proposed array ends up
\* in the cluster built from the earliest array that lists it, and in no
\* other cluster.
C18_EarliestArrayWins ==
    HasArray =>
        \A i \in MultiListed :
            LET a == MinOf(ArraysWith(i)) IN
            /\ BuiltFrom(a) # -1
            /\ Holders(clusters, i) = {BuiltFrom(a)}

\* the arrays listing i from which a cluster was built
AcceptedWith(i) == {a \in ArraysWith(i) : BuiltFrom(a) # -1}

\* C18 amended: an index listed in more than one proposed array ends up in
\* the cluster built from the earliest accepted array that lists it (an
\* array rejected for having fewer than min_cluster_size valid indices
\* claims nothing) and in no other cluster; when no array listing it is
\* accepted it is handled as an unclaimed index.
C18_EarliestAcceptedWins ==
    HasArray =>
        \A i \in MultiListed :
            IF AcceptedWith(i) # {}
            THEN Holders(clusters, i) = {BuiltFrom(MinOf(AcceptedWith(i)))}
            ELSE /\ i \in Range(Unclaimed)
                 /\ Cardinality(Holders(clusters, i)) = 1

\* index 0 is listed by a first array that is rejected and by a second one
\* that is accepted, and cluster 0, built from the second, holds it
C18_Witness ==
    /\ HasArray
    /\ response.arr = << <<0>>, <<0, 1>> >>
    /\ 0 \in MultiListed
    /\ BuiltFrom(1) = -1
    /\ BuiltFrom(2) = 0
    /\ clusters[0] = <<0, 1>>

\* C19: for a category no larger than the sample, a direct-clustering call
\* that raises makes llm_cluster_posts return the single cluster 0 holding
\* 0..M-1, with no further request; llm_cluster_posts itself does not raise.
C19_DirectFallback ==
    (numPosts <= INITIAL_SAMPLE_SIZE /\ response = Raised) =>
        /\ pc = "done"
        /\ DOMAIN clusters = {0}
        /\ clusters[0] = RangeList(numPosts)
        /\ calls = [NoCalls EXCEPT !.cluster = 1]

\* a category of exactly INITIAL_SAMPLE_SIZE records whose clustering call
\* raised
C19_Witness ==
    /\ numPosts = INITIAL_SAMPLE_SIZE
    /\ response = Raised
    /\ pc = "done"
    /\ Len(clusters[0]) = INITIAL_SAMPLE_SIZE

\* C20: for a large category, once a theme call has raised, llm_cluster_posts
\* has returned the single cluster 0 holding 0..M-1 in place of the clusters
\* of phase 1, and no assignment request is ever made.
C20_ThemeFailure ==
    calls.themeRaised > 0 =>
        /\ numPosts > INITIAL_SAMPLE_SIZE
        /\ calls.themeRaised = 1
        /\ pc = "done"
        /\ DOMAIN clusters = {0}
        /\ clusters[0] = RangeList(numPosts)
        /\ calls.assign = 0

\* phase 1 formed two clusters, the first theme call returned and the
\* second raised
C20_Witness ==
    /\ calls.themeRaised = 1
    /\ calls.theme = 2
    /\ Cardinality(DOMAIN sampleClusters) = 2
    /\ numPosts = INITIAL_SAMPLE_SIZE + 2
    /\ Len(clusters[0]) = numPosts

\* the absolute indices of the sub-batch that starts at position i of the
\* remaining records, in order
SubBatch(i) == [k \in 1..BatchLen(i) |-> INITIAL_SAMPLE_SIZE + i + k - 1]

\* C21: when the assignment call of a sub-batch raises, every record of the
\* sub-batch is appended, once and in order, to one cluster that is largest
\* at that moment, no other cluster changes, and the loop goes on to the next
\* sub-batch (or ends after the last one).
C21_SubBatchFailure ==
    [][ calls'.assignRaised > calls.assignRaised =>
          /\ \E t \in DOMAIN clusters :
                /\ \A o \in DOMAIN clusters : Len(clusters[t]) >= Len(clusters[o])
                /\ clusters' = [clusters EXCEPT ![t] = @ \o SubBatch(pos)]
          /\ pos' = pos + AssignBatchSize
          /\ pc' = IF pos' < NumRemaining THEN "phase3" ELSE "done"
      ]_vars

\* the call of the first sub-batch, of two records, raised; the call of
\* the second returned and its record was placed from its response line
C21_Witness ==
    /\ calls.assignRaised = 1
    /\ calls.assign = 2
    /\ pc = "done"
    /\ numPosts = INITIAL_SAMPLE_SIZE + AssignBatchSize + 1
    /\ scan # <<>>
    /\ ~NoKnownLine(scan, clusters)
    /\ Cardinality(DOMAIN clusters) = 2

(***************************************************************************)
(* More claims about the batched stages (checked under SpecStages)         *)
(***************************************************************************)
\* what the step just taken added to the output list
Added == SubSeq(stOut', Len(stOut) + 1, Len(stOut'))

\* C22: a batch step never changes the results of the batches before it;
\* when the call of the batch raises, every record of the batch gets its
\* title as summary and neutral as sentiment (summarize_posts) or the
\* category Uncategorized (categorize_posts), and the loop goes on.
C22_BatchFailure ==
    [][ stOut' # stOut =>
          /\ SubSeq(stOut', 1, Len(stOut)) = stOut
          /\ Len(Added) = StageBatchLen(stPos)
          /\ stResp'.kind = "raised" =>
                /\ stPc' = "run"
                /\ stPos' = stPos + BATCH_SIZE
                /\ \A k \in 1..Len(Added) :
                      /\ Added[k].id = stPos + k - 1
                      /\ stage = "summarize" =>
                            /\ Added[k].summary = TitleOf(stPos + k - 1)
                            /\ Added[k].sentiment = "neutral"
                      /\ stage = "categorize" =>
                            Added[k].category = "Uncategorized"
      ]_vars

\* summarize_posts returned for three records: the call of the first batch
\* raised, the second batch got the summary of its response line
C22_Witness ==
    /\ stage = "summarize" /\ stPc = "done" /\ stN = 3
    /\ stFailed = {0}
    /\ stOut[1].summary = TitleOf(0)
    /\ stOut[2].summary = TitleOf(1)
    /\ stOut[3].summary = LineText(1)
    /\ stOut[3].sentiment = "positive"

\* the forms of a line that has the "||" separator and a SENTIMENT tag
WellFormed == {"pos", "neg", "other"}

\* C23 as stated: a record gets the text of a line only when the line is
\* well-formed; when the first line naming it is not, it keeps its title.
C23_MalformedFallsBack ==
    (stage = "summarize" /\ stResp.kind = "lines") =>
        \A k \in 1..LastLen :
            LET rec == stOut[LastStart + k]
                L == LinesFor(k)
            IN (L # {} /\ stResp.lines[MinOf(L)].form \notin WellFormed) =>
                    /\ rec.summary = TitleOf(LastStart + k - 1)
                    /\ rec.sentiment = "neutral"

\* C23: a record keeps its title exactly when no line names it; when the
\* first line naming it has no "||" the whole text after the prefix is its
\* summary, when it has "||" but no SENTIMENT tag the text before "||" is;
\* in both cases the sentiment is neutral.
C23_MalformedLineKept ==
    (stage = "summarize" /\ stResp.kind = "lines") =>
        \A k \in 1..LastLen :
            LET rec == stOut[LastStart + k]
                L == LinesFor(k)
            IN /\ rec.summary.src = "title" <=> L = {}
               /\ (L # {} /\ stResp.lines[MinOf(L)].form \notin WellFormed) =>
                    /\ rec.summary = LineText(MinOf(L))
                    /\ rec.sentiment = "neutral"

\* a batch of one record whose only line has no "||": the line is the summary
C23_Witness ==
    /\ stage = "summarize" /\ stResp.kind = "lines"
    /\ LastLen = 1
    /\ stResp.lines = <<[prefix |-> 1, form |-> "plain"]>>
    /\ stOut[LastStart + 1].summary = LineText(1)
    /\ stOut[LastStart + 1].sentiment = "neutral"

(***************************************************************************)
(* More claims about insight generation (checked under SpecInsights)       *)
(***************************************************************************)
\* the number of records of category c
SizeOf(c) == Len(CatPosts(insPosts, c))

\* C24: for a category of two or more records, a raise in clustering or in a
\* synthesis never aborts the function.  A raise of a synthesis call leads
\* to the except branch, which discards the insights built so far and
\* records the category with one fallback insight linking all its records
\* (cluster_size = M), or with an empty list when the fallback synthesis
\* raises too; a raise inside clustering alone leaves one insight linking
\* all M records.  In every case the loop goes on with the next category.
C24_CategoryFallback ==
    /\ [] (\A c \in Range(Categories) :
             SizeOf(c) >= 2 =>
               /\ ~(insPc = "aborted" /\ CurCat = c)
               /\ (c \in failedCats /\ ~Processed(c)) => insPc = "except"
               /\ (c \in failedCats /\ Processed(c)) =>
                     /\ c \in DOMAIN insDb
                     /\ \/ insDb[c] = <<>>
                        \/ /\ Len(insDb[c]) = 1
                           /\ insDb[c][1].kind = "fallback"
                           /\ insDb[c][1].linked = CatPosts(insPosts, c)
                           /\ insDb[c][1].size = SizeOf(c)
               /\ (c \in raisedCats \ failedCats /\ Processed(c)) =>
                     /\ c \in DOMAIN insDb
                     /\ Len(insDb[c]) = 1
                     /\ insDb[c][1].linked = CatPosts(insPosts, c)
                     /\ insDb[c][1].size = SizeOf(c))
    /\ [][ insPc = "except" =>
             /\ insPc' = "cat"
             /\ catIdx' = catIdx + 1
             /\ DOMAIN insDb' = DOMAIN insDb \cup {CurCat}
             /\ \A c \in DOMAIN insDb \ {CurCat} : insDb'[c] = insDb[c]
             /\ Len(insDb'[CurCat]) <= 1
         ]_vars

\* the first category has three records and min_cluster_size is 1: an
\* insight was built for one cluster, the synthesis for the next raised, the
\* fallback synthesis returned; the second category was processed after it
C24_Witness ==
    /\ insPc = "done"
    /\ insMcs = 1
    /\ SizeOf(Categories[1]) = 3
    /\ Categories[1] \in failedCats
    /\ insDb[Categories[1]] = <<Insight("fallback", -1, CatPosts(insPosts, Categories[1]))>>
    /\ Categories[2] \in DOMAIN insDb
    /\ insDb[Categories[2]] # <<>>

(***************************************************************************)
(* More claims about llm_cluster_posts (checked under SpecCluster)         *)
(***************************************************************************)
RECURSIVE SumLens(_, _)
\* the number of members of the clusters of d with an id in ids
SumLens(d, ids) ==
    IF ids = {} THEN 0
    ELSE LET k == CHOOSE x \in ids : TRUE
         IN Len(d[k]) + SumLens(d, ids \ {k})

\* the number of members of all the clusters of d taken together
TotalLen(d) == SumLens(d, DOMAIN d)

\* no call has raised so far
NoRaise == response # Raised /\ calls.themeRaised = 0 /\ calls.assignRaised = 0

\* C25: with M <= INITIAL_SAMPLE_SIZE there is one clustering request, over
\* all M records, and no theme or assignment request.  With M larger, the
\* clustering request is over the first INITIAL_SAMPLE_SIZE records only;
\* a theme request is made only after it, an assignment request only after
\* the theme of every cluster has been asked for, and phase 3 places the
\* remaining M - INITIAL_SAMPLE_SIZE records: with one record more than the
\* sample, one assignment request places exactly one record.
C25_PhaseOrder ==
    /\ [] /\ calls.cluster <= 1
          /\ numPosts <= INITIAL_SAMPLE_SIZE =>
                /\ calls.theme = 0 /\ calls.assign = 0
                /\ pc = "done" => calls.cluster = 1
                /\ (pc = "done" /\ response # Raised) =>
                      UNION {Range(clusters[k]) : k \in DOMAIN clusters}
                         = 0 .. (numPosts - 1)
          /\ numPosts > INITIAL_SAMPLE_SIZE =>
                /\ sampleClusters # EmptyDict =>
                      UNION {Range(sampleClusters[k]) : k \in DOMAIN sampleClusters}
                         = 0 .. (INITIAL_SAMPLE_SIZE - 1)
                /\ calls.theme > 0 => (calls.cluster = 1 /\ sampleClusters # EmptyDict)
                /\ calls.assign > 0 =>
                      /\ calls.theme = Cardinality(DOMAIN sampleClusters)
                      /\ calls.themeRaised = 0
                /\ (pc = "done" /\ NoRaise) =>
                      /\ calls.theme >= 1 /\ calls.assign >= 1
                      /\ TotalLen(clusters) - TotalLen(sampleClusters)
                            = numPosts - INITIAL_SAMPLE_SIZE
                      /\ numPosts = INITIAL_SAMPLE_SIZE + 1 => calls.assign = 1
    /\ [][ /\ calls'.cluster > calls.cluster => (calls.theme = 0 /\ calls.assign = 0)
           /\ calls'.theme > calls.theme => (calls.cluster = 1 /\ calls.assign = 0)
           /\ calls'.assign > calls.assign => calls'.theme = calls.theme
         ]_vars

\* one record more than the sample: phase 1 formed two clusters, two theme
\* requests and one assignment request were made, the record was placed
C25_Witness ==
    /\ numPosts = INITIAL_SAMPLE_SIZE + 1
    /\ pc = "done" /\ NoRaise
    /\ calls = [NoCalls EXCEPT !.cluster = 1, !.theme = 2, !.assign = 1]
    /\ TotalLen(sampleClusters) = INITIAL_SAMPLE_SIZE
    /\ TotalLen(clusters) = INITIAL_SAMPLE_SIZE + 1

\* C26: for a large category, once phase 1 has accepted no proposed cluster,
\* llm_cluster_posts has returned the single cluster 0 holding 0..M-1 and
\* has made no theme request and no assignment request.
C26_NoClusterSkipsPhases ==
    (numPosts > INITIAL_SAMPLE_SIZE /\ HasArray /\ DOMAIN Accepted.clusters = {}) =>
        /\ pc = "done"
        /\ clusters = (0 :> RangeList(numPosts))
        /\ calls.theme = 0
        /\ calls.assign = 0

\* phase 3 has been entered: phase 1 and every theme request returned
InPhase3 ==
    /\ numPosts > INITIAL_SAMPLE_SIZE
    /\ sampleClusters # EmptyDict
    /\ calls.themeRaised = 0
    /\ pc \in {"phase3", "parse", "done"}

\* the number of remaining records phase 3 has placed so far
Placed == IF pc = "done" THEN NumRemaining ELSE pos + jdx

\* what phase 3 has appended to cluster k
AppendedTo(k) == SubSeq(clusters[k], Len(sampleClusters[k]) + 1, Len(clusters[k]))

\* C27: in phase 3 the cluster ids are those of phase 1 and every cluster
\* keeps its phase-1 members as a prefix, in their order; the members added
\* are the absolute indices INITIAL_SAMPLE_SIZE.. of the records placed so
\* far, each in exactly one cluster and once, in increasing order; the
\* records are taken in sub-batches of at most AssignBatchSize, one request
\* per sub-batch; every step of phase 3 only appends.
C27_Phase3Appends ==
    /\ [] (InPhase3 =>
             /\ DOMAIN clusters = DOMAIN sampleClusters
             /\ \A k \in DOMAIN clusters :
                   /\ Len(clusters[k]) >= Len(sampleClusters[k])
                   /\ SubSeq(clusters[k], 1, Len(sampleClusters[k])) = sampleClusters[k]
                   /\ \A a, b \in DOMAIN AppendedTo(k) : a < b => AppendedTo(k)[a] < AppendedTo(k)[b]
             /\ UNION {Range(AppendedTo(k)) : k \in DOMAIN clusters}
                   = INITIAL_SAMPLE_SIZE .. (INITIAL_SAMPLE_SIZE + Placed - 1)
             /\ TotalLen(clusters) - TotalLen(sampleClusters) = Placed
             /\ pc = "done" => calls.assign = CeilDiv(NumRemaining, AssignBatchSize)
             /\ pc # "done" =>
                   /\ pos % AssignBatchSize = 0
                   /\ jdx < AssignBatchSize
                   /\ calls.assign = (pos \div AssignBatchSize)
                                       + (IF pc = "parse" THEN 1 ELSE 0))
    /\ [][ (pc = "phase3" \/ pc = "parse") =>
             /\ DOMAIN clusters' = DOMAIN clusters
             /\ \A k \in DOMAIN clusters :
                   /\ Len(clusters'[k]) >= Len(clusters[k])
                   /\ SubSeq(clusters'[k], 1, Len(clusters[k])) = clusters[k]
             /\ TotalLen(clusters') - TotalLen(clusters) <= AssignBatchSize
         ]_vars

\* three records beyond the sample, two clusters after phase 1: two
\* assignment requests returned and each cluster was given a record
C27_Witness ==
    /\ InPhase3 /\ pc = "done"
    /\ numPosts = INITIAL_SAMPLE_SIZE + AssignBatchSize + 1
    /\ calls.assign = 2 /\ calls.assignRaised = 0
    /\ Cardinality(DOMAIN clusters) = 2
    /\ \A k \in DOMAIN clusters : AppendedTo(k) # <<>>

\* the step records the current category after its clusters were looped over
RecordsClustered ==
    /\ insPc \in {"loop", "all", "except"}
    /\ catIdx' = catIdx + 1

\* the records of cluster k of the current category
MembersOf(k) == ClusterPosts(CurPosts, curClusters[k])

\* the clusters of the current category that are below the floor
BelowFloor == {k \in DOMAIN curClusters : Len(MembersOf(k)) < insMcs}

\* C28 as stated: the members of a cluster below the floor appear in the
\* linked record list of no insight recorded for the category.
C28_SkippedNeverLinked ==
    [][ RecordsClustered =>
          \A k \in BelowFloor :
              Range(MembersOf(k)) \cap LinkedBy(insDb'[CurCat]) = {}
      ]_vars

\* C28: a cluster below the floor gets no insight of its own and its members
\* are moved to no other cluster: skipping it changes neither the clusters
\* nor the insights built, and no cluster insight recorded for the category
\* comes from it or links one of its members.  Its members are still linked
\* when the category is recorded with a category-wide insight (the one built
\* when no cluster met the floor, or the fallback after a raise), which links
\* every record of the category.
C28_SkippedOnlyCategoryWide ==
    [][ /\ (InClusterLoop /\ NextClusterId \in BelowFloor) =>
              /\ catInsights' = catInsights
              /\ curClusters' = curClusters
              /\ curDone' = curDone \cup {NextClusterId}
        /\ RecordsClustered =>
            \A k \in BelowFloor :
              \A n \in DOMAIN insDb'[CurCat] :
                LET ins == insDb'[CurCat][n] IN
                /\ ins.cid # k
                /\ Range(MembersOf(k)) \cap Range(ins.linked) # {} =>
                      /\ ins.kind \in {"all", "fallback"}
                      /\ ins.linked = CurPosts
                      /\ ins.size = Len(CurPosts)
      ]_vars

\* a category of two records with min_cluster_size 3: its one cluster was
\* skipped and the category-wide insight links both records
C28_Witness ==
    /\ insPc = "done"
    /\ insMcs = 3
    /\ \E c \in DOMAIN insDb :
          /\ SizeOf(c) = 2
          /\ c \in clusteredCats
          /\ c \notin failedCats
          /\ insDb[c] = <<Insight("all", -1, CatPosts(insPosts, c))>>

(***************************************************************************)
(* More claims about the job runner (checked under SpecBackend)            *)
(***************************************************************************)
\* the output directory made by the pipeline process of job j
OwnDir(j) == [sub |-> jobs[j].sub, by |-> j]

\* every job submitted so far is for the same subreddit
SameSubreddit == \A a, b \in DOMAIN jobs : jobs[a].sub = jobs[b].sub

\* C29: with jobs running for the same subreddit, a job whose process wrote
\* its output and that is completed has recorded and stored its own output
\* directory, and a job whose process exited with code 0 having written its
\* output is never marked failed.
C29_OwnOutput ==
    SameSubreddit =>
        \A j \in DOMAIN jobs :
            jobs[j].fate = "wrote" =>
                /\ jobs[j].status # "failed"
                /\ jobs[j].stored # NoDir => jobs[j].stored = OwnDir(j)
                /\ jobs[j].status = "completed" => jobs[j].output_path = OwnDir(j)

(***************************************************************************)
(* The sentinel category (checked under SpecInsights)                      *)
(***************************************************************************)
\* the records the Categorization Stage mapped to Uncategorized
UncategorizedIds == {i \in 0 .. (Len(insPosts) - 1) : insPosts[i + 1] = "Uncategorized"}

\* C30: Uncategorized is never a key of insights_db; every record linked by
\* an insight recorded under a key carries that key as its category, so a
\* record mapped to Uncategorized is linked by no insight and is in no
\* cluster being processed; when the function returns, the keys are exactly
\* the configured categories with at least one record.
C30_SentinelLeftOut ==
    /\ "Uncategorized" \notin DOMAIN insDb
    /\ \A c \in DOMAIN insDb :
          /\ c \in Range(Categories)
          /\ \A i \in LinkedBy(insDb[c]) : insPosts[i + 1] = c
          /\ LinkedBy(insDb[c]) \cap UncategorizedIds = {}
    /\ insPc \in {"loop", "all", "except"} =>
          /\ Range(CurPosts) \cap UncategorizedIds = {}
          /\ LinkedBy(catInsights) \cap UncategorizedIds = {}
    /\ insPc = "done" =>
          DOMAIN insDb = {c \in Range(Categories) : CatPosts(insPosts, c) # <<>>}

\* the function returned: two of four records are Uncategorized, both
\* configured categories have a record and an insight
C30_Witness ==
    /\ insPc = "done"
    /\ Len(insPosts) = 4
    /\ Cardinality(UncategorizedIds) = 2
    /\ DOMAIN insDb = Range(Categories)
    /\ \A c \in DOMAIN insDb : insDb[c] # <<>>

====
